---- MODULE Spec2Model ----
(***************************************************************************)
(* A model of cocoasm/statement.py: the Statement class of the CoCo3       *)
(* assembler.  One Statement is built from one line of text (parse_line),  *)
(* its mnemonic is resolved (match_mnemonic), its address may be set       *)
(* (set_address) and it is translated against a symbol table (translate).  *)
(*                                                                         *)
(* Text is a sequence of one-character strings.  A Python value that may   *)
(* be None, an int or a str is a record [k, i, s] (see None, IntV, StrV).  *)
(***************************************************************************)
EXTENDS Integers, Sequences, FiniteSets, TLC

(***************************************************************************)
(* Bounds of the model.                                                    *)
(***************************************************************************)
\* the longest run of blanks put between the fields of a generated line
MaxSpaces == 1
\* the number of translate calls made on one statement
MaxTranslate == 2

(***************************************************************************)
(* Python values.                                                          *)
(***************************************************************************)
None == [k |-> "none", i |-> 0, s |-> <<>>]
IntV(n) == [k |-> "int", i |-> n, s |-> <<>>]
StrV(t) == [k |-> "str", i |-> 0, s |-> t]

\* Python truthiness of None, an int or a str
Truthy(v) == (v.k = "int" /\ v.i # 0) \/ (v.k = "str" /\ v.s # <<>>)

\* Python's "x or None" for a str or None
OrNone(v) == IF Truthy(v) THEN v ELSE None

(***************************************************************************)
(* Character classes of the regular expressions.                           *)
(***************************************************************************)
Upper == {"A", "B", "C", "D", "E", "F", "G", "H", "I", "J", "K", "L", "M",
          "N", "O", "P", "Q", "R", "S", "T", "U", "V", "W", "X", "Y", "Z"}
Lower == {"a", "b", "c", "d", "e", "f", "g", "h", "i", "j", "k", "l", "m",
          "n", "o", "p", "q", "r", "s", "t", "u", "v", "w", "x", "y", "z"}
Digit == {"0", "1", "2", "3", "4", "5", "6", "7", "8", "9"}

\* \s
IsSpace(c) == c \in {" ", "\t", "\n", "\r", "\f"}
\* \w
IsWord(c) == c \in Upper \cup Lower \cup Digit \cup {"_"}
\* [\w\[\]#$,+-\.\*]  (the range +-\. is the four characters + , - .)
IsOperandChar(c) == IsWord(c) \/ c \in {"[", "]", "#", "$", ",", "+", "-", ".", "*"}
\* [;]
IsSemi(c) == c = ";"
\* .  (any character but a newline)
IsDot(c) == c # "\n"

\* the length of the longest run of characters of class P in t from position p
RECURSIVE Run(_, _, _)
Run(P(_), t, p) ==
    IF p <= Len(t) /\ P(t[p]) THEN 1 + Run(P, t, p + 1) ELSE 0

\* $ : the end of the text, or just before a newline that ends the text
AtEnd(t, p) == p = Len(t) + 1 \/ (p = Len(t) /\ t[p] = "\n")

\* a greedy quantifier followed by the rest of the pattern: Rest(n) is the match
\* of the rest after n repetitions, and the largest n in lo..hi that lets the rest
\* match is taken (Fail when there is none)
RECURSIVE Backtrack(_, _, _, _)
Backtrack(Rest(_), Fail, lo, n) ==
    IF n < lo THEN Fail
    ELSE LET r == Rest(n) IN IF r.ok THEN r ELSE Backtrack(Rest, Fail, lo, n - 1)

\* t[a..b-1]
Slice(t, a, b) == [j \in 1..(b - a) |-> t[a + j - 1]]

\* str.strip()
RECURSIVE LStrip(_)
LStrip(t) == IF t # <<>> /\ IsSpace(t[1]) THEN LStrip(Tail(t)) ELSE t
RECURSIVE RStrip(_)
RStrip(t) ==
    IF t # <<>> /\ IsSpace(t[Len(t)]) THEN RStrip(SubSeq(t, 1, Len(t) - 1)) ELSE t
Strip(t) == RStrip(LStrip(t))

\* BLANK_LINE_REGEX = ^\s*$   (used with search; ^ is the start of the text)
BLANK_LINE_REGEX(t) ==
    Backtrack(LAMBDA n : [ok |-> AtEnd(t, 1 + n)], [ok |-> FALSE], 0,
              Run(IsSpace, t, 1)).ok

NoComment == [ok |-> FALSE, comment |-> <<>>]

\* the tail  (?P<comment>.*)$  of both line patterns, from position p
CommentTail(t, p) ==
    Backtrack(LAMBDA n : [ok |-> AtEnd(t, p + n), comment |-> Slice(t, p, p + n)],
              NoComment, 0, Run(IsDot, t, p))

\* \s*(?P<comment>.*)$  from position p
CommentBody(t, p) ==
    Backtrack(LAMBDA n : CommentTail(t, p + n), NoComment, 0, Run(IsSpace, t, p))

\* COMMENT_LINE_REGEX = ^\s*;\s*(?P<comment>.*)$   (used with match)
COMMENT_LINE_REGEX(t) ==
    Backtrack(LAMBDA n : IF (1 + n) <= Len(t) /\ IsSemi(t[1 + n])
                         THEN CommentBody(t, 2 + n) ELSE NoComment,
              NoComment, 0, Run(IsSpace, t, 1))

\* ASM_LINE_REGEX =
\*   ^(?P<label>\w*)\s+(?P<mnemonic>\w*)\s+(?P<operands>[\w\[\]#$,+-\.\*]*)\s*[;]*(?P<comment>.*)$
\* (used with match).  Each quantifier is greedy and gives characters back, from
\* the last quantifier to the first, until the rest of the pattern matches.
NoMatch == [ok |-> FALSE, label |-> <<>>, mnemonic |-> <<>>, operands |-> <<>>,
            comment |-> <<>>]

\* (?P<comment>.*)$
AsmComment(t, p) ==
    [NoMatch EXCEPT !.ok = CommentTail(t, p).ok, !.comment = CommentTail(t, p).comment]

\* [;]*
AsmSemicolons(t, p) ==
    Backtrack(LAMBDA n : AsmComment(t, p + n), NoMatch, 0, Run(IsSemi, t, p))

\* \s*
AsmBlanksAfterOperands(t, p) ==
    Backtrack(LAMBDA n : AsmSemicolons(t, p + n), NoMatch, 0, Run(IsSpace, t, p))

\* (?P<operands>[...]*)
AsmOperands(t, p) ==
    Backtrack(LAMBDA n : [AsmBlanksAfterOperands(t, p + n)
                            EXCEPT !.operands = Slice(t, p, p + n)],
              NoMatch, 0, Run(IsOperandChar, t, p))

\* \s+
AsmBlanksAfterMnemonic(t, p) ==
    Backtrack(LAMBDA n : AsmOperands(t, p + n), NoMatch, 1, Run(IsSpace, t, p))

\* (?P<mnemonic>\w*)
AsmMnemonic(t, p) ==
    Backtrack(LAMBDA n : [AsmBlanksAfterMnemonic(t, p + n)
                            EXCEPT !.mnemonic = Slice(t, p, p + n)],
              NoMatch, 0, Run(IsWord, t, p))

\* \s+
AsmBlanksAfterLabel(t, p) ==
    Backtrack(LAMBDA n : AsmMnemonic(t, p + n), NoMatch, 1, Run(IsSpace, t, p))

\* ^(?P<label>\w*)
ASM_LINE_REGEX(t) ==
    Backtrack(LAMBDA n : [AsmBlanksAfterLabel(t, 1 + n) EXCEPT !.label = Slice(t, 1, 1 + n)],
              NoMatch, 0, Run(IsWord, t, 1))

(***************************************************************************)
(* Collaborators of the Statement class: cocoasm.helpers.hex_value,        *)
(* cocoasm.operand.Operand and cocoasm.instruction.INSTRUCTIONS.           *)
(***************************************************************************)
HexChars == <<"0", "1", "2", "3", "4", "5", "6", "7", "8", "9",
              "A", "B", "C", "D", "E", "F">>
IsHexChar(c) == \E n \in 1..16 : HexChars[n] = c

RECURSIVE ToHex(_)
ToHex(n) ==
    IF n < 16 THEN <<HexChars[n + 1]>>
    ELSE Append(ToHex(n \div 16), HexChars[(n % 16) + 1])

RECURSIVE RJust(_, _)
RJust(t, width) == IF Len(t) >= width THEN t ELSE RJust(<<"0">> \o t, width)

\* hex_value(value, size): the value as a string of hexadecimal digits, two for
\* each byte; an int is padded to size digits, a str gives its hexadecimal digits
hex_value(v, width) ==
    CASE v.k = "none" -> None
      [] v.k = "int" -> StrV(RJust(ToHex(v.i), width))
      [] v.k = "str" -> StrV(SelectSeq(v.s, IsHexChar))

\* Operand(text): the operand of a statement, classified by its text as exactly
\* one of inherent (empty), immediate (#value), direct (<value),
\* extended indirect ([value]), symbol (a bare identifier) or extended (a value)
Operand(v) == [operand_string |-> v]
get_string_value(o) == o.operand_string
OperandText(o) == o.operand_string.s
is_inherent(o) == OperandText(o) = <<>>
is_immediate(o) == ~is_inherent(o) /\ OperandText(o)[1] = "#"
is_direct(o) == ~is_inherent(o) /\ OperandText(o)[1] = "<"
is_extended_indirect(o) ==
    /\ ~is_inherent(o)
    /\ OperandText(o)[1] = "["
    /\ OperandText(o)[Len(OperandText(o))] = "]"
is_symbol(o) ==
    /\ ~is_inherent(o)
    /\ OperandText(o)[1] \in Upper \cup Lower \cup {"_"}
    /\ \A n \in 1..Len(OperandText(o)) : IsWord(OperandText(o)[n])
is_extended(o) ==
    ~(is_inherent(o) \/ is_immediate(o) \/ is_direct(o) \/ is_extended_indirect(o)
        \/ is_symbol(o))
get_immediate(o) == StrV(Tail(OperandText(o)))
get_extended_indirect(o) == StrV(SubSeq(OperandText(o), 2, Len(OperandText(o)) - 1))

\* the opcodes of an instruction, one for each addressing mode it supports
Mode(inh, imm, dir, ind, ext, rel) ==
    [inh |-> inh, imm |-> imm, dir |-> dir, ind |-> ind, ext |-> ext, rel |-> rel]
supports_inherent(m) == m.inh # None
supports_immediate(m) == m.imm # None
supports_indexed(m) == m.ind # None
supports_direct(m) == m.dir # None
supports_extended(m) == m.ext # None

\* an instruction descriptor; NoInstruction stands for Python's None
Instruction(mnemonic, mode, pseudo, special, branch) ==
    [mnemonic |-> mnemonic, mode |-> mode, pseudo |-> pseudo, special |-> special,
     branch |-> branch, none |-> FALSE]
NoInstruction ==
    [mnemonic |-> <<>>, mode |-> Mode(None, None, None, None, None, None),
     pseudo |-> FALSE, special |-> FALSE, branch |-> FALSE, none |-> TRUE]
is_pseudo(i) == i.pseudo
is_special(i) == i.special
is_branch_operation(i) == i.branch

NOP == <<"N", "O", "P">>
LDA == <<"L", "D", "A">>
BRA == <<"B", "R", "A">>
FCB == <<"F", "C", "B">>
PSHS == <<"P", "S", "H", "S">>

\* the instruction table: NOP 12 (inherent), LDA 86/96/A6/B6, BRA 20 (relative),
\* the pseudo operation FCB and the special operation PSHS
INSTRUCTIONS ==
    << Instruction(NOP, Mode(IntV(18), None, None, None, None, None),
                   FALSE, FALSE, FALSE),
       Instruction(LDA, Mode(None, IntV(134), IntV(150), IntV(166), IntV(182), None),
                   FALSE, FALSE, FALSE),
       Instruction(BRA, Mode(None, None, None, None, None, IntV(32)),
                   FALSE, FALSE, TRUE),
       Instruction(FCB, Mode(None, None, None, None, None, None),
                   TRUE, FALSE, FALSE),
       Instruction(PSHS, Mode(None, IntV(52), None, None, None, None),
                   FALSE, TRUE, FALSE) >>

\* translate_pseudo(label, operand, symbol_table): the bytes a directive defines
translate_pseudo(i, label, o, symbol_table) == get_string_value(o)

\* translate_special(operand): the post byte of a register list
translate_special(i, o) ==
    IF OperandText(o) = <<"A">> THEN IntV(2)
    ELSE IF OperandText(o) = <<"B">> THEN IntV(4)
    ELSE IntV(0)

(***************************************************************************)
(* The inputs: lines of text and symbol tables.                            *)
(***************************************************************************)
LOOP == <<"L", "P">>
Blanks(n) == [j \in 1..n |-> " "]

LineLabels == {<<>>, LOOP}
LineMnemonics == {<<>>, NOP, LDA, BRA, FCB, PSHS, <<"X", "X">>}
LineOperands ==
    {<<>>, <<"#", "$", "0", "5">>, <<"[", "$", "1", "0", "]">>, <<"<", "$", "1", "0">>,
     <<"$", "1", "2", "3", "4">>, LOOP, <<"A">>}
LineEnds == {<<>>, <<"\n">>, <<";", "c">>, <<" ", ";", " ", "c", " ", "\n">>}

\* LABEL MNEMONIC OPERANDS COMMENT with 0..MaxSpaces blanks between the fields
Lines ==
    {l \o Blanks(a) \o m \o Blanks(b) \o o \o e :
        l \in LineLabels, a \in 0..MaxSpaces, m \in LineMnemonics,
        b \in 0..MaxSpaces, o \in LineOperands, e \in LineEnds}

\* the statement a symbol is bound to, as far as translate reads it
SymbolEntry(a) == [address |-> hex_value(IntV(a), 4)]
SymbolTables ==
    UNION {[D -> {SymbolEntry(0), SymbolEntry(16)}] : D \in SUBSET {LOOP}}
Addresses == {16}

(***************************************************************************)
(* The state: the fields of one Statement, and the call made last.         *)
(***************************************************************************)
VARIABLES
    line,           \* the text the statement is built from
    empty, comment_only, instruction, label, operand, comment, size, address,
    mnemonic, op_code, post_byte, additional,
    symbol_table,   \* the symbol table as the last call of translate left it
    passed,         \* the symbol table as it was passed to that call
    pc,             \* "init", "parsed", or "parse_error" when __init__ raised
    last,           \* the method called last
    raised,         \* what that call raised (kind "ok" when it returned)
    ncalls,         \* the number of translate calls made
    clean           \* no call made so far has raised

fields == <<empty, comment_only, instruction, label, operand, comment, size, address,
            mnemonic, op_code, post_byte, additional>>
vars == <<line, fields, symbol_table, passed, pc, last, raised, ncalls, clean>>

Ok == [kind |-> "ok", msg |-> "", arg |-> <<>>]
Raise(self, kind, msg, arg) ==
    [self EXCEPT !.raised = [kind |-> kind, msg |-> msg, arg |-> arg]]
Returned(self) == self.raised.kind = "ok"

\* the statement the fields make up
Self ==
    [empty |-> empty, comment_only |-> comment_only, instruction |-> instruction,
     label |-> label, operand |-> operand, comment |-> comment, size |-> size,
     address |-> address, mnemonic |-> mnemonic, op_code |-> op_code,
     post_byte |-> post_byte, additional |-> additional, raised |-> Ok]

\* the fields after a call that left the statement r
Becomes(r) ==
    /\ empty' = r.empty
    /\ comment_only' = r.comment_only
    /\ instruction' = r.instruction
    /\ label' = r.label
    /\ operand' = r.operand
    /\ comment' = r.comment
    /\ size' = r.size
    /\ address' = r.address
    /\ mnemonic' = r.mnemonic
    /\ op_code' = r.op_code
    /\ post_byte' = r.post_byte
    /\ additional' = r.additional
    /\ raised' = r.raised
    /\ clean' = (clean /\ r.raised.kind = "ok")

get_address(self) == IF Truthy(self.address) THEN self.address ELSE StrV(<<"0", "0", "0", "0">>)
get_label(self) == IF Truthy(self.label) THEN self.label ELSE StrV(<<>>)
get_op_codes(self) == OrNone(hex_value(self.op_code, 2))
get_additional(self) == OrNone(hex_value(self.additional, 2))
get_post_byte(self) == OrNone(hex_value(self.post_byte, 2))

set_address(self, a) == [self EXCEPT !.address = hex_value(IntV(a), 4)]

\* Statement.__init__ up to its call of parse_line
Init ==
    /\ line \in Lines
    /\ empty = TRUE
    /\ comment_only = FALSE
    /\ instruction = NoInstruction
    /\ label = None
    /\ operand = Operand(None)
    /\ comment = None
    /\ size = 0
    /\ address = hex_value(IntV(0), 4)
    /\ mnemonic = None
    /\ op_code = None
    /\ post_byte = None
    /\ additional = None
    /\ symbol_table = [y \in {} |-> SymbolEntry(0)]
    /\ passed = symbol_table
    /\ pc = "init"
    /\ last = "__init__"
    /\ raised = Ok
    /\ ncalls = 0
    /\ clean = TRUE

(***************************************************************************)
(* parse_line                                                              *)
(***************************************************************************)
\* parse_line with the instruction pattern tried before the comment pattern
parse_line_instruction_first(self, t) ==
    IF BLANK_LINE_REGEX(t) THEN self
    ELSE IF ASM_LINE_REGEX(t).ok
    THEN LET data == ASM_LINE_REGEX(t)
         IN  [self EXCEPT !.label = OrNone(StrV(data.label)),
                          !.mnemonic = OrNone(StrV(data.mnemonic)),
                          !.operand = Operand(StrV(data.operands)),
                          !.comment = OrNone(StrV(Strip(data.comment))),
                          !.empty = FALSE]
    ELSE IF COMMENT_LINE_REGEX(t).ok
    THEN [self EXCEPT !.empty = FALSE,
                      !.comment_only = TRUE,
                      !.comment = StrV(Strip(COMMENT_LINE_REGEX(t).comment))]
    ELSE Raise(self, "ParseError", "Could not parse line", t)

parse_line(self, t) ==
    IF BLANK_LINE_REGEX(t) THEN self
    ELSE IF COMMENT_LINE_REGEX(t).ok
    THEN [self EXCEPT !.empty = FALSE,
                      !.comment_only = TRUE,
                      !.comment = StrV(Strip(COMMENT_LINE_REGEX(t).comment))]
    ELSE IF ASM_LINE_REGEX(t).ok
    THEN LET data == ASM_LINE_REGEX(t)
         IN  [self EXCEPT !.label = OrNone(StrV(data.label)),
                          !.mnemonic = OrNone(StrV(data.mnemonic)),
                          !.operand = Operand(StrV(data.operands)),
                          !.comment = OrNone(StrV(Strip(data.comment))),
                          !.empty = FALSE]
    ELSE Raise(self, "ParseError", "Could not parse line", t)

ParseLine ==
    /\ pc = "init"
    /\ LET r == parse_line(Self, line)
       IN  /\ Becomes(r)
           /\ pc' = IF Returned(r) THEN "parsed" ELSE "parse_error"
    /\ last' = "parse_line"
    /\ UNCHANGED <<line, symbol_table, passed, ncalls>>

(***************************************************************************)
(* match_mnemonic                                                          *)
(***************************************************************************)
\* the first instruction of the table with the statement's mnemonic, or None
match_operation(self) ==
    LET hits == {n \in 1..Len(INSTRUCTIONS) : StrV(INSTRUCTIONS[n].mnemonic) = self.mnemonic}
    IN  IF hits = {} THEN NoInstruction
        ELSE INSTRUCTIONS[CHOOSE n \in hits : \A m \in hits : n <= m]

\* match_mnemonic without the test of what the lookup found
match_mnemonic_unchecked(self) == [self EXCEPT !.instruction = match_operation(self)]

match_mnemonic(self) ==
    LET found == [self EXCEPT !.instruction = match_operation(self)]
    IN  IF found.instruction = NoInstruction
        THEN Raise(found, "TranslationError", "Invalid mnemonic", self.mnemonic.s)
        ELSE found

MatchMnemonic ==
    /\ pc = "parsed"
    /\ Becomes(match_mnemonic(Self))
    /\ last' = "match_mnemonic"
    /\ UNCHANGED <<line, symbol_table, passed, pc, ncalls>>

(***************************************************************************)
(* set_address                                                             *)
(***************************************************************************)
SetAddress ==
    /\ pc = "parsed"
    /\ \E a \in Addresses : Becomes(set_address(Self, a))
    /\ last' = "set_address"
    /\ UNCHANGED <<line, symbol_table, passed, pc, ncalls>>

(***************************************************************************)
(* translate                                                               *)
(***************************************************************************)
\* the post byte translate gives every extended indirect operand
ExtendedIndirectPostByte == 159

\* operand = self.operand; if operand.is_symbol(): ...
\* gives the statement (with what was raised), the local operand, and whether
\* translate returns at once because the resolved operand has no string value
\* resolve_symbol taking an unknown symbol for an operand like any other
resolve_symbol_unknown_kept(self, table) ==
    IF is_symbol(self.operand) /\ get_string_value(self.operand).s \in DOMAIN table
    THEN LET resolved == Operand(get_address(table[get_string_value(self.operand).s]))
         IN  [self |-> self, operand |-> resolved,
              return |-> ~Truthy(get_string_value(resolved))]
    ELSE [self |-> self, operand |-> self.operand, return |-> FALSE]

\* resolve_symbol storing the resolved operand in the statement
resolve_symbol_stored(self, table) ==
    IF is_symbol(self.operand)
    THEN LET symbol == get_string_value(self.operand)
         IN  IF symbol.s \notin DOMAIN table
             THEN [self |-> Raise(self, "TranslationError", "Unknown symbol", symbol.s),
                   operand |-> self.operand, return |-> FALSE]
             ELSE LET resolved == Operand(get_address(table[symbol.s]))
                  IN  [self |-> [self EXCEPT !.operand = resolved], operand |-> resolved,
                       return |-> ~Truthy(get_string_value(resolved))]
    ELSE [self |-> self, operand |-> self.operand, return |-> FALSE]

resolve_symbol(self, table) ==
    IF is_symbol(self.operand)
    THEN LET symbol == get_string_value(self.operand)
         IN  IF symbol.s \notin DOMAIN table
             THEN [self |-> Raise(self, "TranslationError", "Unknown symbol", symbol.s),
                   operand |-> self.operand, return |-> FALSE]
             ELSE LET resolved == Operand(get_address(table[symbol.s]))
                  IN  [self |-> self, operand |-> resolved,
                       return |-> ~Truthy(get_string_value(resolved))]
    ELSE [self |-> self, operand |-> self.operand, return |-> FALSE]

\* the pseudo operation step without its return: the symbol lookup follows
translate_pseudo_no_return(self, table) ==
    resolve_symbol(
        [self EXCEPT !.additional =
            translate_pseudo(self.instruction, get_label(self), self.operand, table)],
        table).self

\* if self.instruction.is_pseudo(): ...; return
translate_pseudo_operation(self, table) ==
    [self EXCEPT !.additional =
        translate_pseudo(self.instruction, get_label(self), self.operand, table)]

\* if self.instruction.is_special(): ...; return
translate_special_operation(self) ==
    [self EXCEPT !.post_byte = translate_special(self.instruction, self.operand)]

\* if self.instruction.is_branch_operation(): ...; return
translate_branch(self) == [self EXCEPT !.op_code = self.instruction.mode.rel]

\* if operand.is_inherent(): ...
check_inherent(self, o) ==
    IF is_inherent(o)
    THEN IF supports_inherent(self.instruction.mode)
         THEN [self EXCEPT !.op_code = self.instruction.mode.inh]
         ELSE Raise(self, "TranslationError", "requires an operand", self.mnemonic.s)
    ELSE self

\* the immediate test keeping the "#" of the operand in additional
check_immediate_whole_operand(self, o) ==
    IF is_immediate(o)
    THEN IF supports_immediate(self.instruction.mode)
         THEN [self EXCEPT !.op_code = self.instruction.mode.imm,
                           !.additional = get_string_value(o)]
         ELSE Raise(self, "TranslationError", "does not support immediate addressing",
                    self.mnemonic.s)
    ELSE self

\* the immediate test storing the operand before it tests the mode
check_immediate_stored_first(self, o) ==
    IF is_immediate(o)
    THEN IF supports_immediate(self.instruction.mode)
         THEN [self EXCEPT !.op_code = self.instruction.mode.imm,
                           !.additional = get_immediate(o)]
         ELSE Raise([self EXCEPT !.additional = get_immediate(o)], "TranslationError",
                    "does not support immediate addressing", self.mnemonic.s)
    ELSE self

\* if operand.is_immediate(): ...
check_immediate(self, o) ==
    IF is_immediate(o)
    THEN IF supports_immediate(self.instruction.mode)
         THEN [self EXCEPT !.op_code = self.instruction.mode.imm,
                           !.additional = get_immediate(o)]
         ELSE Raise(self, "TranslationError", "does not support immediate addressing",
                    self.mnemonic.s)
    ELSE self

\* if operand.is_extended_indirect(): ...
check_extended_indirect(self, o) ==
    IF is_extended_indirect(o)
    THEN IF supports_indexed(self.instruction.mode)
         THEN [self EXCEPT !.op_code = self.instruction.mode.ind,
                           !.additional = get_extended_indirect(o),
                           !.post_byte = IntV(ExtendedIndirectPostByte)]
         ELSE Raise(self, "TranslationError", "does not support indexed addressing",
                    self.mnemonic.s)
    ELSE self

\* if operand.is_direct(): ...
check_direct(self, o) ==
    IF is_direct(o)
    THEN IF supports_direct(self.instruction.mode)
         THEN [self EXCEPT !.op_code = self.instruction.mode.dir,
                           !.additional = get_string_value(o)]
         ELSE Raise(self, "TranslationError", "does not support direct addressing",
                    self.mnemonic.s)
    ELSE self

\* the extended test raising nothing for a mode the instruction lacks
check_extended_no_raise(self, o) ==
    IF is_extended(o) /\ supports_extended(self.instruction.mode)
    THEN [self EXCEPT !.op_code = self.instruction.mode.ext,
                      !.additional = get_string_value(o)]
    ELSE self

\* the extended test taking every operand that is not empty for an extended one
check_extended_any_operand(self, o) ==
    IF ~is_inherent(o)
    THEN IF supports_extended(self.instruction.mode)
         THEN [self EXCEPT !.op_code = self.instruction.mode.ext,
                           !.additional = get_string_value(o)]
         ELSE Raise(self, "TranslationError", "does not support extended addressing",
                    self.mnemonic.s)
    ELSE self

\* if operand.is_extended(): ...
check_extended(self, o) ==
    IF is_extended(o)
    THEN IF supports_extended(self.instruction.mode)
         THEN [self EXCEPT !.op_code = self.instruction.mode.ext,
                           !.additional = get_string_value(o)]
         ELSE Raise(self, "TranslationError", "does not support extended addressing",
                    self.mnemonic.s)
    ELSE self

\* a statement of translate, skipped once an earlier one has raised
Then(self, Statement(_)) == IF Returned(self) THEN Statement(self) ELSE self

\* the five addressing mode tests, one after the other
addressing_modes(self, o) ==
    LET Inherent(x) == check_inherent(x, o)
        Immediate(x) == check_immediate(x, o)
        ExtendedIndirect(x) == check_extended_indirect(x, o)
        Direct(x) == check_direct(x, o)
        Extended(x) == check_extended(x, o)
    IN  Then(Then(Then(Then(Then(self, Inherent), Immediate), ExtendedIndirect),
                  Direct), Extended)

\* if self.op_code: self.size += ...   (and so for additional and post_byte)
add_sizes(self) ==
    LET a == IF Truthy(self.op_code) THEN Len(get_op_codes(self).s) \div 2 ELSE 0
        b == IF Truthy(self.additional) THEN Len(get_additional(self).s) \div 2 ELSE 0
        c == IF Truthy(self.post_byte) THEN Len(get_post_byte(self).s) \div 2 ELSE 0
    IN  [self EXCEPT !.size = self.size + a + b + c]

translate(self, table) ==
    IF self.instruction = NoInstruction
    THEN Raise(self, "AttributeError", "NoneType has no attribute is_pseudo", <<>>)
    ELSE IF is_pseudo(self.instruction) THEN translate_pseudo_operation(self, table)
    ELSE IF is_special(self.instruction) THEN translate_special_operation(self)
    ELSE LET r == resolve_symbol(self, table)
         IN  IF ~Returned(r.self) \/ r.return THEN r.self
             ELSE IF is_branch_operation(r.self.instruction) THEN translate_branch(r.self)
             ELSE Then(addressing_modes(r.self, r.operand), add_sizes)

Translate ==
    /\ pc = "parsed"
    /\ ncalls < MaxTranslate
    /\ \E table \in SymbolTables :
        /\ Becomes(translate(Self, table))
        /\ passed' = table
        /\ symbol_table' = table
    /\ last' = "translate"
    /\ ncalls' = ncalls + 1
    /\ UNCHANGED <<line, pc>>

Next == ParseLine \/ MatchMnemonic \/ SetAddress \/ Translate

Spec == Init /\ [][Next]_vars

(***************************************************************************)
(* What the claims speak of.                                               *)
(***************************************************************************)
\* the statement holds an instruction that is no pseudo, special or branch one
Ordinary ==
    /\ instruction # NoInstruction
    /\ ~is_pseudo(instruction)
    /\ ~is_special(instruction)
    /\ ~is_branch_operation(instruction)

\* the operand the addressing mode tests of the last translate call looked at
LocalOperand(table) ==
    IF is_symbol(operand) /\ OperandText(operand) \in DOMAIN table
    THEN Operand(table[OperandText(operand)].address)
    ELSE operand

\* the addressing modes, and the one whose shape the operand o has
Modes == {"inh", "imm", "ind", "dir", "ext"}
HasShape(m, o) ==
    CASE m = "inh" -> OperandText(o) = <<>>
      [] m = "imm" -> is_immediate(o)
      [] m = "ind" -> is_extended_indirect(o)
      [] m = "dir" -> is_direct(o)
      [] m = "ext" -> is_extended(o)

\* the opcode, additional and post byte of mode m for the operand o
ModeOutputs(m, i, o) ==
    CASE m = "inh" -> <<i.mode.inh, None, None>>
      [] m = "imm" -> <<i.mode.imm, StrV(Tail(OperandText(o))), None>>
      [] m = "ind" -> <<i.mode.ind,
                        StrV(SubSeq(OperandText(o), 2, Len(OperandText(o)) - 1)),
                        IntV(159)>>
      [] m = "dir" -> <<i.mode.dir, o.operand_string, None>>
      [] m = "ext" -> <<i.mode.ext, o.operand_string, None>>

\* the number of bytes of an encoding output that is present
ByteLength(hex) == IF hex = None THEN 0 ELSE Len(hex.s) \div 2

\* the line is blank; the position of its first character that is no blank
AllBlank(t) == \A n \in 1..Len(t) : IsSpace(t[n])
FirstMark(t) == CHOOSE n \in 1..Len(t) : ~IsSpace(t[n]) /\ \A m \in 1..(n - 1) : IsSpace(t[m])
IsCommentOnly(t) == ~AllBlank(t) /\ t[FirstMark(t)] = ";"

(***************************************************************************)
(* C1.  size is the sum of the byte lengths of those of opcode, post byte  *)
(* and additional that are present, after parsing and any number of        *)
(* successful match_mnemonic and translate calls.                          *)
(***************************************************************************)
C1_SizeIsSumOfByteLengths ==
    (pc = "parsed" /\ clean) =>
        size = ByteLength(get_op_codes(Self)) + ByteLength(get_post_byte(Self))
                 + ByteLength(get_additional(Self))

C3_UnknownSymbolRaises ==
    [][(/\ last' = "translate"
        /\ instruction # NoInstruction
        /\ ~is_pseudo(instruction)
        /\ ~is_special(instruction)
        /\ is_symbol(operand)
        /\ OperandText(operand) \notin DOMAIN passed')
       => (/\ raised' = [kind |-> "TranslationError", msg |-> "Unknown symbol",
                         arg |-> OperandText(operand)]
           /\ op_code' = op_code
           /\ post_byte' = post_byte
           /\ additional' = additional
           /\ size' = size)]_vars

C3_Witness ==
    /\ last = "translate"
    /\ instruction # NoInstruction
    /\ is_branch_operation(instruction)
    /\ is_symbol(operand)
    /\ OperandText(operand) \notin DOMAIN passed
    /\ raised.msg = "Unknown symbol"
    /\ op_code = None

C5_ModeOutputs ==
    (last = "translate" /\ raised = Ok /\ Ordinary) =>
        LET o == LocalOperand(passed)
        IN  /\ is_inherent(o) =>
                op_code = instruction.mode.inh /\ additional = None /\ post_byte = None
            /\ is_immediate(o) =>
                /\ op_code = instruction.mode.imm
                /\ additional = StrV(Tail(OperandText(o)))
                /\ post_byte = None
            /\ is_extended_indirect(o) =>
                /\ op_code = instruction.mode.ind
                /\ additional = StrV(SubSeq(OperandText(o), 2, Len(OperandText(o)) - 1))
                /\ post_byte = IntV(159)
            /\ (is_direct(o) \/ is_extended(o)) =>
                /\ op_code = (IF is_direct(o) THEN instruction.mode.dir
                              ELSE instruction.mode.ext)
                /\ additional = o.operand_string
                /\ post_byte = None
            /\ op_code # None
            /\ (instruction.mnemonic = LDA /\ OperandText(operand) = <<"#", "$", "0", "5">>
                  /\ ncalls = 1) =>
                /\ get_op_codes(Self) = StrV(<<"8", "6">>)
                /\ get_additional(Self) = StrV(<<"0", "5">>)
                /\ size = 2

C5_Witness ==
    /\ last = "translate"
    /\ raised = Ok
    /\ Ordinary
    /\ is_immediate(operand)
    /\ op_code = IntV(134)
    /\ size = 2

C7_ParseClasses ==
    pc # "init" =>
        /\ ~(empty /\ comment_only)
        /\ AllBlank(line) =>
            /\ pc = "parsed" /\ empty /\ ~comment_only
            /\ label = None /\ mnemonic = None /\ comment = None
            /\ operand.operand_string = None
        /\ IsCommentOnly(line) =>
            /\ pc = "parsed" /\ ~empty /\ comment_only
            /\ comment = StrV(Strip(SubSeq(line, FirstMark(line) + 1, Len(line))))
            /\ label = None /\ mnemonic = None
        /\ (~AllBlank(line) /\ ~IsCommentOnly(line)) =>
            \/ pc = "parsed" /\ ~empty /\ ~comment_only /\ operand.operand_string # None
            \/ /\ pc = "parse_error" /\ raised.kind = "ParseError"
               /\ last = "parse_line" /\ empty /\ ~comment_only
        /\ pc = "parse_error" => ~ASM_LINE_REGEX(line).ok

C7_Witness ==
    /\ pc = "parsed"
    /\ comment_only
    /\ ASM_LINE_REGEX(line).ok
    /\ comment = StrV(<<"c">>)

C9_FailureLeavesEncoding ==
    [][(last' = "translate" /\ raised'.kind = "TranslationError")
       => (/\ op_code' = op_code
           /\ post_byte' = post_byte
           /\ additional' = additional
           /\ size' = size)]_vars

C9_Witness ==
    /\ last = "translate"
    /\ raised.kind = "TranslationError"
    /\ op_code # None
    /\ additional # None
    /\ size > 0

(***************************************************************************)
(* C10.  A translate call, returning or raising, leaves label, mnemonic,   *)
(* operand, comment, address, empty and comment_only alone and leaves the  *)
(* symbol table as it was passed; a symbol operand stays the symbol.       *)
(***************************************************************************)
C10_TranslateFrame ==
    [][last' = "translate"
       => (/\ label' = label
           /\ mnemonic' = mnemonic
           /\ operand' = operand
           /\ comment' = comment
           /\ address' = address
           /\ empty' = empty
           /\ comment_only' = comment_only
           /\ instruction' = instruction
           /\ symbol_table' = passed')]_vars

C10_Witness ==
    /\ last = "translate"
    /\ raised = Ok
    /\ Ordinary
    /\ operand = Operand(StrV(LOOP))
    /\ LOOP \in DOMAIN symbol_table
    /\ additional = symbol_table[LOOP].address

====
